---- MODULE Spec2Model ----
(***************************************************************************)
(* Model of the Sudoku class (board, is_valid, find_empty, solve,          *)
(* is_solved, get_hint) and of play_mode of 3_sudoku.py.                   *)
(*                                                                         *)
(* The board keeps its real size, 9x9 with 3x3 boxes.  solve() is modelled *)
(* with an explicit stack of frames, one action per basic block, so that   *)
(* every intermediate board of the search is a state.  is_solved() and     *)
(* get_hint() do not call out and are one action each.                     *)
(***************************************************************************)
EXTENDS Integers, Sequences, FiniteSets, TLC

VARIABLES board, original, mode, pc, stack, ret, retEntry, pre, op, verdict,
          hint, arg, cmds

vars == <<board, original, mode, pc, stack, ret, retEntry, pre, op, verdict,
          hint, arg, cmds>>

----------------------------------------------------------------------------
(* Bounds of the explored inputs *)

\* at most this many cells of the base grid are blanked in a starting board
MaxHoles == 3
\* blanked and overwritten cells are taken from the first MaxWindow WindowCells
MaxWindow == 5
\* at most this many commands are read by one play_mode session
MaxCmds == 3

----------------------------------------------------------------------------
(* Board representation *)

Size == 9
BoxSize == 3
Idx == 0..(Size - 1)
Digits == 1..Size
None == <<>>

\* self.board[i][j] = v
SetCell(b, i, j, v) == [b EXCEPT ![i][j] = v]

\* [[0 for _ in range(9)] for _ in range(9)]
EmptyBoard == [i \in Idx |-> [j \in Idx |-> 0]]

\* from_string on an 81-digit string: cell (i, j) is s[i * 9 + j]
from_string(s) == [i \in Idx |-> [j \in Idx |-> s[i * Size + j + 1]]]

\* the built-in puzzle of play_mode
PlayPuzzle ==
  << 0,0,3, 0,2,0, 6,0,0,
     9,0,0, 3,0,5, 0,0,1,
     0,0,1, 8,0,6, 4,0,0,
     0,0,8, 1,0,2, 9,0,0,
     7,0,0, 0,0,0, 0,0,8,
     0,0,6, 7,0,8, 2,0,0,
     0,0,2, 6,0,9, 5,0,0,
     8,0,0, 2,0,3, 0,0,9,
     0,0,5, 0,1,0, 3,0,0 >>

\* a complete grid (the completion of PlayPuzzle), the base of the starting
\* boards handed to the constructor
BaseGrid ==
  << 4,8,3, 9,2,1, 6,5,7,
     9,6,7, 3,4,5, 8,2,1,
     2,5,1, 8,7,6, 4,9,3,
     5,4,8, 1,3,2, 9,7,6,
     7,2,9, 5,6,4, 1,3,8,
     1,3,6, 7,9,8, 2,4,5,
     3,7,2, 6,8,9, 5,1,4,
     8,1,4, 2,5,3, 7,6,9,
     6,9,5, 4,1,7, 3,8,2 >>

\* cells that a starting board may blank or overwrite
WindowCells == << <<0,0>>, <<0,4>>, <<1,0>>, <<1,4>>, <<2,0>>, <<0,1>>,
                  <<4,1>>, <<0,3>>, <<1,1>>, <<2,4>> >>

Window == {WindowCells[k] : k \in 1..MaxWindow}

RECURSIVE Blank(_, _)
Blank(b, cells) ==
  IF cells = {} THEN b
  ELSE LET c == CHOOSE x \in cells : TRUE
       IN Blank(SetCell(b, c[1], c[2], 0), cells \ {c})

\* starting boards: the base grid, with possibly one window cell overwritten
\* by another digit or two window cells exchanged, and at most MaxHoles
\* window cells blanked; the built-in puzzle; the all-empty board of Sudoku()
WindowBoards ==
  LET g == from_string(BaseGrid)
      edited == {SetCell(g, c[1], c[2], d) : c \in Window, d \in Digits}
      swapped == {SetCell(SetCell(g, c[1], c[2], g[e[1]][e[2]]),
                          e[1], e[2], g[c[1]][c[2]]) : c \in Window, e \in Window}
      holes == {h \in SUBSET Window : Cardinality(h) <= MaxHoles}
  IN {Blank(e, h) : e \in edited \cup swapped, h \in holes}

StartBoards == WindowBoards \cup {from_string(PlayPuzzle), EmptyBoard}

----------------------------------------------------------------------------
(* Sudoku.is_valid *)

\* is_valid without the scan of the row
is_valid_NoRow(b, num, row, col) ==
  /\ ~\E i \in Idx : b[i][col] = num /\ i # row
  /\ LET box_row == (row \div BoxSize) * BoxSize
         box_col == (col \div BoxSize) * BoxSize
     IN ~\E i \in box_row..(box_row + BoxSize - 1) :
          \E j \in box_col..(box_col + BoxSize - 1) :
             b[i][j] = num /\ <<i, j>> # <<row, col>>

is_valid(b, num, row, col) ==
  /\ ~\E j \in Idx : b[row][j] = num /\ j # col
  /\ ~\E i \in Idx : b[i][col] = num /\ i # row
  /\ LET box_row == (row \div BoxSize) * BoxSize
         box_col == (col \div BoxSize) * BoxSize
     IN ~\E i \in box_row..(box_row + BoxSize - 1) :
          \E j \in box_col..(box_col + BoxSize - 1) :
             b[i][j] = num /\ <<i, j>> # <<row, col>>

(* Sudoku.find_empty: "for j in range(9)" from column j on in row i, and  *)
(* "for i in range(9)" from row i on                                       *)
RECURSIVE FindEmptyInRow(_, _, _)
FindEmptyInRow(b, i, j) ==
  IF j = Size THEN None
  ELSE IF b[i][j] = 0 THEN <<i, j>>
  ELSE FindEmptyInRow(b, i, j + 1)

RECURSIVE FindEmptyFrom(_, _)
FindEmptyFrom(b, i) ==
  IF i = Size THEN None
  ELSE IF FindEmptyInRow(b, i, 0) # None THEN FindEmptyInRow(b, i, 0)
  ELSE FindEmptyFrom(b, i + 1)

find_empty(b) == FindEmptyFrom(b, 0)

----------------------------------------------------------------------------
(* Sudoku.is_solved: the value returned and the board it leaves *)

\* CheckRow whose early return leaves the tested cell at 0
RECURSIVE CheckRow_NoRestore(_, _, _)
CheckRow_NoRestore(b, i, j) ==
  IF j = Size THEN [ret |-> TRUE, board |-> b]
  ELSE LET num == b[i][j]
           removed == SetCell(b, i, j, 0)
       IN IF ~is_valid(removed, num, i, j)
          THEN [ret |-> FALSE, board |-> removed]
          ELSE CheckRow_NoRestore(SetCell(removed, i, j, num), i, j + 1)

\* the inner loop "for j in range(9)" from column j on: remove the number,
\* test it, put it back
RECURSIVE CheckRow(_, _, _)
CheckRow(b, i, j) ==
  IF j = Size THEN [ret |-> TRUE, board |-> b]
  ELSE LET num == b[i][j]
           removed == SetCell(b, i, j, 0)
       IN IF ~is_valid(removed, num, i, j)
          THEN [ret |-> FALSE, board |-> SetCell(removed, i, j, num)]
          ELSE CheckRow(SetCell(removed, i, j, num), i, j + 1)

\* the outer loop "for i in range(9)" from row i on
RECURSIVE CheckRows(_, _)
CheckRows(b, i) ==
  IF i = Size THEN [ret |-> TRUE, board |-> b]
  ELSE LET r == CheckRow(b, i, 0)
       IN IF ~r.ret THEN r ELSE CheckRows(r.board, i + 1)

\* is_solved without the test for empty cells
is_solved_NoEmptyTest(b) == CheckRows(b, 0)

is_solved(b) ==
  IF \E i \in Idx : \E j \in Idx : b[i][j] = 0
  THEN [ret |-> FALSE, board |-> b]
  ELSE CheckRows(b, 0)

----------------------------------------------------------------------------
(* Sudoku.get_hint *)

\* [num for num in range(1, 10) if self.is_valid(num, i, j)]
valid_nums(b, i, j) ==
  SelectSeq([n \in 1..Size |-> n], LAMBDA num : is_valid(b, num, i, j))

\* SingleInRow that takes a cell with one possibility or more
RECURSIVE SingleInRow_AtLeastOne(_, _, _)
SingleInRow_AtLeastOne(b, i, j) ==
  IF j = Size THEN None
  ELSE IF b[i][j] = 0 /\ Len(valid_nums(b, i, j)) >= 1
       THEN <<i, j, valid_nums(b, i, j)[1]>>
  ELSE SingleInRow_AtLeastOne(b, i, j + 1)

\* first pair of loops: the first empty cell with exactly one possibility
RECURSIVE SingleInRow(_, _, _)
SingleInRow(b, i, j) ==
  IF j = Size THEN None
  ELSE IF b[i][j] = 0 /\ Len(valid_nums(b, i, j)) = 1
       THEN <<i, j, valid_nums(b, i, j)[1]>>
  ELSE SingleInRow(b, i, j + 1)

RECURSIVE HintSingle(_, _)
HintSingle(b, i) ==
  IF i = Size THEN None
  ELSE IF SingleInRow(b, i, 0) # None THEN SingleInRow(b, i, 0)
  ELSE HintSingle(b, i + 1)

\* FirstValid that keeps the last valid number instead of the first
RECURSIVE FirstValid_Last(_, _, _, _)
FirstValid_Last(b, i, j, num) ==
  IF num > Size THEN 0
  ELSE LET later == FirstValid_Last(b, i, j, num + 1)
       IN IF later # 0 THEN later
          ELSE IF is_valid(b, num, i, j) THEN num
          ELSE 0

\* "for num in range(1, 10): if self.is_valid(num, i, j): return"; 0 when
\* the loop ends without a return
RECURSIVE FirstValid(_, _, _, _)
FirstValid(b, i, j, num) ==
  IF num > Size THEN 0
  ELSE IF is_valid(b, num, i, j) THEN num
  ELSE FirstValid(b, i, j, num + 1)

\* second pair of loops: any valid move
RECURSIVE AnyInRow(_, _, _)
AnyInRow(b, i, j) ==
  IF j = Size THEN None
  ELSE IF b[i][j] = 0 /\ FirstValid(b, i, j, 1) # 0
       THEN <<i, j, FirstValid(b, i, j, 1)>>
  ELSE AnyInRow(b, i, j + 1)

RECURSIVE HintAny(_, _)
HintAny(b, i) ==
  IF i = Size THEN None
  ELSE IF AnyInRow(b, i, 0) # None THEN AnyInRow(b, i, 0)
  ELSE HintAny(b, i + 1)

get_hint(b) ==
  IF HintSingle(b, 0) # None THEN HintSingle(b, 0) ELSE HintAny(b, 0)

----------------------------------------------------------------------------
(* Sudoku.solve, one frame per call *)

\* a frame: the cell found by find_empty, the digit of the for loop, the
\* position in the body and the board the call was entered with
Frame(b) == [row |-> 0, col |-> 0, num |-> 0, at |-> "entry", entry |-> b]

Top == stack[Len(stack)]
Pop == SubSeq(stack, 1, Len(stack) - 1)
SetTop(f) == [stack EXCEPT ![Len(stack)] = f]

\* where the outermost call returns to
AfterSolve == IF mode = "play" THEN "done" ELSE "idle"

\* "return v" of the running frame
Return(v) ==
  /\ stack' = Pop
  /\ ret' = v
  /\ retEntry' = Top.entry
  /\ pc' = IF Len(stack) = 1 THEN AfterSolve ELSE pc

\* empty = self.find_empty(); if empty is None: return True
SolveFull ==
  /\ pc = "solve" /\ ret = "none" /\ Top.at = "entry"
  /\ find_empty(board) = None
  /\ Return("True")
  /\ UNCHANGED <<board, original, mode, pre, op, verdict, hint, arg, cmds>>

\* row, col = empty
SolveFindEmpty ==
  /\ pc = "solve" /\ ret = "none" /\ Top.at = "entry"
  /\ find_empty(board) # None
  /\ stack' = SetTop([Top EXCEPT !.row = find_empty(board)[1],
                                 !.col = find_empty(board)[2],
                                 !.num = 1, !.at = "loop"])
  /\ UNCHANGED <<board, original, mode, pc, ret, retEntry, pre, op, verdict, hint, arg, cmds>>

\* is_valid(num, row, col) holds: place the number and call solve
SolvePlace ==
  /\ pc = "solve" /\ ret = "none" /\ Top.at = "loop"
  /\ Top.num <= Size
  /\ is_valid(board, Top.num, Top.row, Top.col)
  /\ board' = SetCell(board, Top.row, Top.col, Top.num)
  /\ stack' = Append(SetTop([Top EXCEPT !.at = "call"]), Frame(board'))
  /\ UNCHANGED <<original, mode, pc, ret, retEntry, pre, op, verdict, hint, arg, cmds>>

\* is_valid(num, row, col) fails: next number
SolveSkip ==
  /\ pc = "solve" /\ ret = "none" /\ Top.at = "loop"
  /\ Top.num <= Size
  /\ ~is_valid(board, Top.num, Top.row, Top.col)
  /\ stack' = SetTop([Top EXCEPT !.num = Top.num + 1])
  /\ UNCHANGED <<board, original, mode, pc, ret, retEntry, pre, op, verdict, hint, arg, cmds>>

\* range(1, 10) is exhausted: return False
SolveExhausted ==
  /\ pc = "solve" /\ ret = "none" /\ Top.at = "loop"
  /\ Top.num > Size
  /\ Return("False")
  /\ UNCHANGED <<board, original, mode, pre, op, verdict, hint, arg, cmds>>

\* the nested call returned True: return True
SolveSucceed ==
  /\ pc = "solve" /\ ret = "True" /\ Top.at = "call"
  /\ Return("True")
  /\ UNCHANGED <<board, original, mode, pre, op, verdict, hint, arg, cmds>>

\* SolveBacktrack with "return False" inside the for loop
SolveBacktrack_ReturnInLoop ==
  /\ pc = "solve" /\ ret = "False" /\ Top.at = "call"
  /\ board' = SetCell(board, Top.row, Top.col, 0)
  /\ Return("False")
  /\ UNCHANGED <<original, mode, pre, op, verdict, hint, arg, cmds>>

\* SolveBacktrack without "self.board[row][col] = 0"
SolveBacktrack_NoUndo ==
  /\ pc = "solve" /\ ret = "False" /\ Top.at = "call"
  /\ stack' = SetTop([Top EXCEPT !.num = Top.num + 1, !.at = "loop"])
  /\ ret' = "none"
  /\ UNCHANGED <<board, original, mode, pc, retEntry, pre, op, verdict, hint,
                 arg, cmds>>

\* SolveBacktrack that tries the same number again
SolveBacktrack_Retry ==
  /\ pc = "solve" /\ ret = "False" /\ Top.at = "call"
  /\ board' = SetCell(board, Top.row, Top.col, 0)
  /\ stack' = SetTop([Top EXCEPT !.at = "loop"])
  /\ ret' = "none"
  /\ UNCHANGED <<original, mode, pc, retEntry, pre, op, verdict, hint, arg,
                 cmds>>

\* SolveBacktrack that resets board[col][row] instead of board[row][col]
SolveBacktrack_Transposed ==
  /\ pc = "solve" /\ ret = "False" /\ Top.at = "call"
  /\ board' = SetCell(board, Top.col, Top.row, 0)
  /\ stack' = SetTop([Top EXCEPT !.num = Top.num + 1, !.at = "loop"])
  /\ ret' = "none"
  /\ UNCHANGED <<original, mode, pc, retEntry, pre, op, verdict, hint, arg,
                 cmds>>

\* the nested call returned False: backtrack and take the next number
SolveBacktrack ==
  /\ pc = "solve" /\ ret = "False" /\ Top.at = "call"
  /\ board' = SetCell(board, Top.row, Top.col, 0)
  /\ stack' = SetTop([Top EXCEPT !.num = Top.num + 1, !.at = "loop"])
  /\ ret' = "none"
  /\ UNCHANGED <<original, mode, pc, retEntry, pre, op, verdict, hint, arg, cmds>>

SolveStep ==
  \/ SolveFull
  \/ SolveFindEmpty
  \/ SolvePlace
  \/ SolveSkip
  \/ SolveExhausted
  \/ SolveSucceed
  \/ SolveBacktrack

----------------------------------------------------------------------------
(* The methods called on a constructed Sudoku *)

\* Sudoku(board): board and original are copies of the argument
Init ==
  /\ board \in StartBoards
  /\ original = board
  /\ mode = "api"
  /\ pc = "idle"
  /\ stack = <<>>
  /\ ret = "none"
  /\ retEntry = board
  /\ pre = board
  /\ op = "none"
  /\ verdict = FALSE
  /\ hint = None
  /\ arg = None
  /\ cmds = 0

CallSolve ==
  /\ pc = "idle"
  /\ pc' = "solve"
  /\ stack' = <<Frame(board)>>
  /\ ret' = "none"
  /\ retEntry' = board
  /\ pre' = board
  /\ op' = "solve"
  /\ verdict' = FALSE
  /\ hint' = None
  /\ UNCHANGED <<board, original, mode, arg, cmds>>

CallIsSolved ==
  /\ pc = "idle"
  /\ board' = is_solved(board).board
  /\ verdict' = is_solved(board).ret
  /\ pre' = board
  /\ op' = "is_solved"
  /\ ret' = "none"
  /\ retEntry' = board
  /\ hint' = None
  /\ UNCHANGED <<original, mode, pc, stack, arg, cmds>>

CallGetHint ==
  /\ pc = "idle"
  /\ hint' = get_hint(board)
  /\ pre' = board
  /\ op' = "get_hint"
  /\ ret' = "none"
  /\ retEntry' = board
  /\ verdict' = FALSE
  /\ UNCHANGED <<board, original, mode, pc, stack, arg, cmds>>

Next ==
  \/ CallSolve
  \/ SolveFull
  \/ SolveFindEmpty
  \/ SolvePlace
  \/ SolveSkip
  \/ SolveExhausted
  \/ SolveSucceed
  \/ SolveBacktrack
  \/ CallIsSolved
  \/ CallGetHint

Spec == Init /\ [][Next]_vars

\* a call of solve() that has started keeps running until it returns
FairSpec == Spec /\ WF_vars(SolveStep)

----------------------------------------------------------------------------
(* play_mode *)

\* the numbers a player types for row, column and digit
PlayRows == {-1, 0, 1, 9}
PlayCols == {0, 1, 2, 9}
PlayNums == {0, 3, 4, 5, 10}

\* sudoku = Sudoku.from_string(puzzle_string)
PlayInit ==
  /\ board = from_string(PlayPuzzle)
  /\ original = board
  /\ mode = "play"
  /\ pc = "play"
  /\ stack = <<>>
  /\ ret = "none"
  /\ retEntry = board
  /\ pre = board
  /\ op = "none"
  /\ verdict = FALSE
  /\ hint = None
  /\ arg = None
  /\ cmds = 0

\* "while not sudoku.is_solved()" lets the body run and a command is read
Prompt == pc = "play" /\ ~is_solved(board).ret /\ cmds < MaxCmds

\* the board as the loop test leaves it
Tested == is_solved(board).board

\* the loop test fails, or the command is quit: play_mode returns
PlayExit ==
  /\ pc = "play"
  /\ is_solved(board).ret \/ cmds < MaxCmds
  /\ pc' = "done"
  /\ board' = Tested
  /\ pre' = Tested
  /\ op' = "quit"
  /\ hint' = None
  /\ arg' = None
  /\ UNCHANGED <<original, mode, stack, ret, retEntry, verdict, cmds>>

\* the command is solve: play_mode returns whatever solve() returns
PlaySolve ==
  /\ Prompt
  /\ pc' = "solve"
  /\ board' = Tested
  /\ stack' = <<Frame(Tested)>>
  /\ ret' = "none"
  /\ retEntry' = Tested
  /\ pre' = Tested
  /\ op' = "solve"
  /\ hint' = None
  /\ arg' = None
  /\ cmds' = cmds + 1
  /\ UNCHANGED <<original, mode, verdict>>

\* the command is hint
PlayHint ==
  /\ Prompt
  /\ board' = Tested
  /\ hint' = get_hint(Tested)
  /\ pre' = Tested
  /\ op' = "get_hint"
  /\ arg' = None
  /\ cmds' = cmds + 1
  /\ UNCHANGED <<original, mode, pc, stack, ret, retEntry, verdict>>

\* the command is not three integers
PlayMalformed ==
  /\ Prompt
  /\ board' = Tested
  /\ pre' = Tested
  /\ op' = "malformed"
  /\ hint' = None
  /\ arg' = None
  /\ cmds' = cmds + 1
  /\ UNCHANGED <<original, mode, pc, stack, ret, retEntry, verdict>>

\* Accepted without the test of the original cells
Accepted_NoOriginalTest(b, row, col, num) ==
  /\ 0 <= row /\ row <= 8 /\ 0 <= col /\ col <= 8
  /\ 1 <= num /\ num <= 9
  /\ is_valid(b, num, row, col)

\* the checks a move passes before it is written
Accepted(b, row, col, num) ==
  /\ 0 <= row /\ row <= 8 /\ 0 <= col /\ col <= 8
  /\ 1 <= num /\ num <= 9
  /\ original[row][col] = 0
  /\ is_valid(b, num, row, col)

\* the command is "<row> <col> <num>" and passes every check
PlayMove ==
  /\ Prompt
  /\ \E row \in PlayRows : \E col \in PlayCols : \E num \in PlayNums :
       /\ Accepted(Tested, row, col, num)
       /\ board' = SetCell(Tested, row, col, num)
       /\ arg' = <<row, col, num>>
  /\ pre' = Tested
  /\ op' = "move"
  /\ hint' = None
  /\ cmds' = cmds + 1
  /\ UNCHANGED <<original, mode, pc, stack, ret, retEntry, verdict>>

\* the command is "<row> <col> <num>" and fails a check
PlayReject ==
  /\ Prompt
  /\ \E row \in PlayRows : \E col \in PlayCols : \E num \in PlayNums :
       /\ ~Accepted(Tested, row, col, num)
       /\ arg' = <<row, col, num>>
  /\ board' = Tested
  /\ pre' = Tested
  /\ op' = "reject"
  /\ hint' = None
  /\ cmds' = cmds + 1
  /\ UNCHANGED <<original, mode, pc, stack, ret, retEntry, verdict>>

PlayNext ==
  \/ PlayExit
  \/ PlaySolve
  \/ PlayHint
  \/ PlayMalformed
  \/ PlayMove
  \/ PlayReject
  \/ SolveFull
  \/ SolveFindEmpty
  \/ SolvePlace
  \/ SolveSkip
  \/ SolveExhausted
  \/ SolveSucceed
  \/ SolveBacktrack

PlaySpec == PlayInit /\ [][PlayNext]_vars

----------------------------------------------------------------------------
(* Vocabulary of the properties: a direct scan of rows, columns and boxes *)

Cells == Idx \X Idx

Rows == {{<<i, j>> : j \in Idx} : i \in Idx}
Cols == {{<<i, j>> : i \in Idx} : j \in Idx}
Boxes == {{<<BoxSize * p + i, BoxSize * q + j>> : i \in 0..(BoxSize - 1),
                                                   j \in 0..(BoxSize - 1)} :
            p \in 0..(BoxSize - 1), q \in 0..(BoxSize - 1)}
Units == Rows \cup Cols \cup Boxes

At(b, c) == b[c[1]][c[2]]

NoZero(b) == \A c \in Cells : At(b, c) # 0

\* the filled cells of unit u hold as many digits as there are filled cells
NoDupIn(b, u) ==
  Cardinality({At(b, c) : c \in u} \ {0}) = Cardinality({c \in u : At(b, c) # 0})

NoDup(b) == \A u \in Units : NoDupIn(b, u)

EmptyCells(b) == {c \in Cells : At(b, c) = 0}

Peers(c) == {e \in Cells : e # c /\ \E u \in Units : c \in u /\ e \in u}

\* digits that occur in no peer of cell c
Cand(b, c) == {d \in Digits : \A e \in Peers(c) : At(b, e) # d}

\* position of a cell in row-major order
Pos(c) == c[1] * Size + c[2]

FirstOf(cs) == CHOOSE c \in cs : \A e \in cs : Pos(c) <= Pos(e)

Least(ds) == CHOOSE d \in ds : \A e \in ds : d <= e

\* the empty cells can be filled so that no row, column or box has a
\* duplicate
Completable(b) ==
  /\ NoDup(b)
  /\ LET E == EmptyCells(b)
         cand == [c \in E |-> Cand(b, c)]
     IN /\ \A c \in E : cand[c] # {}
        /\ \E f \in [E -> Digits] :
             /\ \A c \in E : f[c] \in cand[c]
             /\ \A c \in E : \A e \in E : e \in Peers(c) => f[c] # f[e]

\* the outermost solve() has returned
Solved == op = "solve" /\ pc = AfterSolve /\ stack = <<>>

\* row i of board b holds some digit twice
RowDup(b) == \E u \in Rows : ~NoDupIn(b, u)

----------------------------------------------------------------------------
(* C1: whenever solve() returns true the board has no empty cell and no    *)
(* digit twice in a row, column or box; on a board without empty cells     *)
(* that holds a digit twice in one row, solve() returns false and leaves   *)
(* the board as given.                                                     *)
C1_TrueMeansSolved ==
  /\ (Solved /\ ret = "True") => (NoZero(board) /\ NoDup(board))
  /\ (Solved /\ NoZero(pre) /\ RowDup(pre)) => (ret = "False" /\ board = pre)

(* C2: if the empty cells of the starting board can be filled without a    *)
(* duplicate in any row, column or box, solve() returns true.              *)
C2_Complete == (Solved /\ ret = "False") => ~Completable(pre)

\* a solvable board on which the search had to backtrack before it succeeded
W_C2 ==
  /\ Solved /\ ret = "True" /\ EmptyCells(pre) # {}
  /\ LET c == FirstOf(EmptyCells(pre))
     IN At(board, c) # Least(Cand(pre, c))

(* C3: when a solve() call, outermost or nested, returns false, every cell *)
(* has the value it had when that call was entered.                        *)
C3_Restore ==
  /\ ret = "False" => board = retEntry
  /\ (Solved /\ ret = "False") => board = pre

\* a nested call that placed a digit, recursed and then returned false
W_C3 ==
  /\ ret = "False" /\ pc = "solve" /\ stack # <<>>
  /\ EmptyCells(board) # {}
  /\ Cand(board, FirstOf(EmptyCells(board))) # {}

(* C4: when solve() is called on a board without duplicates, every board   *)
(* of the search and the board on return are without duplicates.           *)
C4_Validity == (op = "solve" /\ NoDup(pre)) => NoDup(board)

\* an undo has just happened in a search that started from a valid board
W_C4 ==
  /\ op = "solve" /\ pc = "solve" /\ NoDup(pre) /\ board # pre
  /\ stack # <<>> /\ Top.at = "loop" /\ Top.num > 1
  /\ Len(stack) >= 2

(* C5: is_solved() is true exactly when the board has no empty cell and no *)
(* digit twice in a row, column or box; on a full board with a digit twice *)
(* in one row is_valid is false at both positions and is_solved() false.   *)
C5_IsSolved ==
  op = "is_solved" =>
    /\ verdict <=> (NoZero(pre) /\ NoDup(pre))
    /\ NoZero(pre) =>
         \A i \in Idx : \A j \in Idx : \A k \in Idx :
           (j # k /\ pre[i][j] = pre[i][k]) =>
              /\ ~is_valid(pre, pre[i][j], i, j)
              /\ ~is_valid(pre, pre[i][k], i, k)
              /\ ~verdict

\* a full board whose only duplicates are in rows was rejected, and a full
\* valid board was accepted
W_C5 ==
  /\ op = "is_solved" /\ ~verdict /\ NoZero(pre) /\ RowDup(pre)
  /\ \A u \in Cols \cup Boxes : NoDupIn(pre, u)

W_C5_True == op = "is_solved" /\ verdict

(* C6: is_solved() leaves all 81 cells as they were, on every return path. *)
C6_NoMutation == op = "is_solved" => board = pre

\* the early return at a conflicting cell
W_C6 == op = "is_solved" /\ ~verdict /\ NoZero(pre)

(* C7: if some empty cell has exactly one valid digit, get_hint() returns  *)
(* the first such cell in row-major order with that digit.                 *)
Forced(b) == {c \in EmptyCells(b) : Cardinality(Cand(b, c)) = 1}

C7_ForcedHint ==
  (op = "get_hint" /\ Forced(pre) # {}) =>
     LET c == FirstOf(Forced(pre))
     IN hint = <<c[1], c[2], Least(Cand(pre, c))>>

\* earlier empty cells with no valid digit and with several valid digits
W_C7 ==
  /\ op = "get_hint" /\ Forced(pre) # {}
  /\ \E c \in EmptyCells(pre) :
       Pos(c) < Pos(FirstOf(Forced(pre))) /\ Cardinality(Cand(pre, c)) >= 2
  /\ \E c \in EmptyCells(pre) :
       Pos(c) < Pos(FirstOf(Forced(pre))) /\ Cand(pre, c) = {}

(* C8 as stated: with empty cells but none with exactly one valid digit,   *)
(* get_hint() returns the first empty cell with the smallest digit valid   *)
(* there; on a full board it returns none.                                 *)
C8_Original ==
  (op = "get_hint" /\ Forced(pre) = {}) =>
     IF EmptyCells(pre) = {} THEN hint = None
     ELSE LET c == FirstOf(EmptyCells(pre))
          IN Cand(pre, c) # {} /\ hint = <<c[1], c[2], Least(Cand(pre, c))>>

(* C8 amended: with no empty cell that has exactly one valid digit,        *)
(* get_hint() returns the first empty cell that has a valid digit, with    *)
(* the smallest digit valid there; it returns none when no empty cell has  *)
(* a valid digit, in particular on a full board.                           *)
Open(b) == {c \in EmptyCells(b) : Cand(b, c) # {}}

C8_Fallback ==
  (op = "get_hint" /\ Forced(pre) = {}) =>
     IF Open(pre) = {} THEN hint = None
     ELSE LET c == FirstOf(Open(pre))
          IN hint = <<c[1], c[2], Least(Cand(pre, c))>>

\* the first empty cell has no valid digit and a later one has several
W_C8 ==
  /\ op = "get_hint" /\ Forced(pre) = {} /\ Open(pre) # {}
  /\ FirstOf(EmptyCells(pre)) # FirstOf(Open(pre))
  /\ hint # None

W_C8_Full == op = "get_hint" /\ EmptyCells(pre) = {} /\ hint = None

(* C9: in play_mode every given cell keeps its digit and the board has no  *)
(* digit twice in a row, column or box; a move that targets a given cell,  *)
(* is out of range or conflicts with the board is rejected and changes no  *)
(* cell, and an accepted move writes its target cell only.                 *)
MoveOk(b, row, col, num) ==
  /\ row \in Idx /\ col \in Idx /\ num \in Digits
  /\ original[row][col] = 0
  /\ num \in Cand(b, <<row, col>>)

C9_Play ==
  /\ \A c \in Cells : At(original, c) # 0 => At(board, c) = At(original, c)
  /\ NoDup(board)
  /\ op \in {"move", "reject"} =>
       IF MoveOk(pre, arg[1], arg[2], arg[3])
       THEN /\ op = "move"
            /\ board[arg[1]][arg[2]] = arg[3]
            /\ \A c \in Cells : c # <<arg[1], arg[2]>> => At(board, c) = At(pre, c)
       ELSE op = "reject" /\ board = pre

\* a move was rejected because of a digit the player had entered before
W_C9 ==
  /\ op = "reject" /\ board # original
  /\ arg[1] \in Idx /\ arg[2] \in Idx /\ arg[3] \in Digits
  /\ original[arg[1]][arg[2]] = 0
  /\ arg[3] \in Cand(original, <<arg[1], arg[2]>>)

(* C10: solve() terminates on every starting board: a nested call runs on  *)
(* a board with exactly one empty cell fewer than its caller, a call tries *)
(* at most nine digits, the nesting depth is at most 81 and every call of  *)
(* solve() returns.                                                        *)
Empties(b) == Cardinality(EmptyCells(b))

C10_Shape ==
  /\ \A k \in 1..Len(stack) :
       /\ stack[k].num \in 0..(Size + 1)
       /\ k > 1 => Empties(stack[k].entry) = Empties(stack[k - 1].entry) - 1
  /\ Len(stack) - 1 <= Size * Size

C10_Terminates == [](C10_Shape) /\ ((pc = "solve") ~> (pc # "solve"))

\* the deepest nesting: 81 nested calls below the outermost one
W_C10 == pc = "solve" /\ Len(stack) = Size * Size + 1

(* C11: solve() writes only to cells that were empty when it was called:  *)
(* a cell that was non-zero at the call, of the outermost or of a nested   *)
(* solve(), keeps its value in every state of the search and on return,    *)
(* and no step of solve() writes the original grid.                        *)
Keeps(from, to) == \A c \in Cells : At(from, c) # 0 => At(to, c) = At(from, c)

C11_Frame ==
  /\ op = "solve" => Keeps(pre, board)
  /\ \A k \in 1..Len(stack) : Keeps(stack[k].entry, board)
  /\ ret # "none" => Keeps(retEntry, board)

C11_OnlyEmptyCells ==
  [](C11_Frame) /\ [][pc = "solve" => original' = original]_vars

\* a search that started with given digits, undid placements and found a
\* solution
W_C11 ==
  /\ Solved /\ ret = "True" /\ board # pre
  /\ \E c \in Cells : At(pre, c) # 0
  /\ At(board, FirstOf(EmptyCells(pre))) # Least(Cand(pre, FirstOf(EmptyCells(pre))))

====
